---- MODULE Spec2Model ----
(***************************************************************************)
(* A model of src/src/lib.rs: the HttpsConnector (its two policy flags and *)
(* its connect operation), the poll of HttpsConnecting, the MidHandshake   *)
(* future behind ConnectAsync and AcceptAsync, and read, write, flush and  *)
(* shutdown of TlsStream / MaybeHttpsStream.                               *)
(*                                                                         *)
(* The raw connector, the TLS backend and the raw transport are external   *)
(* collaborators: every result they return is drawn nondeterministically   *)
(* from the results their interface allows, and every call the library     *)
(* makes to them is recorded, as an instrumented fake would record it.     *)
(***************************************************************************)
EXTENDS Integers, Sequences, FiniteSets, TLC

VARIABLES
    connector,    \* the HttpsConnector, or NoConnector before From
    lastDisable,  \* <<>> or <<b>>: argument of the last danger_disable_hostname_verification
    lastForce,    \* <<>> or <<b>>: argument of the last force_https
    connecting,   \* the last call of connect: its arguments and what it produced
    httpCalls,    \* destinations handed to the raw connector (self.http.connect)
    env,          \* the network: the peer's certificate name, the raw connect's outcome
    mid,          \* the handshake future: its kind and MidHandshake.inner
    hsSteps,      \* number of backend handshake steps performed so far
    pollLog,      \* one record per poll of the handshake future
    transport,    \* the MaybeHttpsStream the caller holds, or NoTransport
    ioLog         \* one record per read, write, flush or shutdown on the transport

vars == <<connector, lastDisable, lastForce, connecting, httpCalls, env,
          mid, hsSteps, pollLog, transport, ioLog>>

connVars == <<connector, lastDisable, lastForce, connecting, httpCalls>>
hsVars == <<mid, hsSteps, pollLog>>
ioVars == <<transport, ioLog>>

(***************************************************************************)
(* Bounds of the model.                                                    *)
(***************************************************************************)
\* how many times the backend may report an interrupted handshake
MaxInterrupts == 3
\* how many times the handshake future is polled
MaxPolls == 4
\* how many times read, write, flush and shutdown are called on one transport
MaxIoCalls == 2

(***************************************************************************)
(* Values.                                                                 *)
(***************************************************************************)
Schemes == {"http", "https"}
Hosts == {"a.test", "b.test"}
Destinations == [scheme : Schemes, host : Hosts]
RawConnectors == {"http1", "http2"}
TlsContexts == [verify_hostname : BOOLEAN]
RawStreams == {"s1", "s2"}
\* kinds of io::Error; WouldBlock is the one try_nb! treats as "not ready"
IoErrors == {"WouldBlock", "BrokenPipe", "ConnectionReset"}
\* kinds of tls_api::Error
TlsErrors == {"BadCertificate", "ProtocolMismatch"}

NoConnector == [tag |-> "NoConnector"]
NoTransport == [tag |-> "NoTransport"]

(***************************************************************************)
(* HttpsConnector: construction from parts and the two setters.            *)
(***************************************************************************)
\* a plausible slip: the flags start the other way round
From_flipped(args) ==
    [tag |-> "HttpsConnector",
     hostname_verification |-> FALSE,
     force_https |-> TRUE,
     http |-> args[1],
     tls |-> args[2]]

\* impl From<(T, S)> for HttpsConnector<T, S>
From(args) ==
    [tag |-> "HttpsConnector",
     hostname_verification |-> TRUE,
     force_https |-> FALSE,
     http |-> args[1],
     tls |-> args[2]]

\* a plausible slip: the argument is stored without the negation
danger_disable_hostname_verification_as_given(self, disable) ==
    [self EXCEPT !.hostname_verification = disable]

\* HttpsConnector::danger_disable_hostname_verification(&mut self, disable)
danger_disable_hostname_verification(self, disable) ==
    [self EXCEPT !.hostname_verification = ~disable]

\* HttpsConnector::force_https(&mut self, enable)
force_https(self, enable) ==
    [self EXCEPT !.force_https = enable]

(***************************************************************************)
(* HttpsConnector::connect.  Its body is unimplemented!(): every call      *)
(* panics before the flags or the destination are read, the raw connector  *)
(* is never invoked and no future is produced.  The panic carries the      *)
(* standard library's text for unimplemented!(), "not implemented".        *)
(***************************************************************************)
connect(self, dst) ==
    [ret |-> [tag |-> "Panic", msg |-> "not implemented"],
     http |-> << >>]

Construct ==
    /\ connector = NoConnector
    /\ \E http \in RawConnectors, tls \in TlsContexts :
          connector' = From(<<http, tls>>)
    /\ UNCHANGED <<lastDisable, lastForce, connecting, httpCalls, env>>
    /\ UNCHANGED <<hsVars, ioVars>>

SetHostnameVerification ==
    /\ connector # NoConnector
    /\ \E disable \in BOOLEAN :
          /\ connector' = danger_disable_hostname_verification(connector, disable)
          /\ lastDisable' = <<disable>>
    /\ UNCHANGED <<lastForce, connecting, httpCalls, env>>
    /\ UNCHANGED <<hsVars, ioVars>>

SetForceHttps ==
    /\ connector # NoConnector
    /\ \E enable \in BOOLEAN :
          /\ connector' = force_https(connector, enable)
          /\ lastForce' = <<enable>>
    /\ UNCHANGED <<lastDisable, connecting, httpCalls, env>>
    /\ UNCHANGED <<hsVars, ioVars>>

Connect ==
    /\ connector # NoConnector
    /\ \E dst \in Destinations :
          LET r == connect(connector, dst) IN
          /\ connecting' = [tag |-> "Called", self |-> connector, dst |-> dst,
                            ret |-> r.ret, http |-> r.http]
          /\ httpCalls' = httpCalls \o r.http
    /\ UNCHANGED <<connector, lastDisable, lastForce, env>>
    /\ UNCHANGED <<hsVars, ioVars>>

NextConnector ==
    \/ Construct
    \/ SetHostnameVerification
    \/ SetForceHttps
    \/ Connect

Init ==
    /\ connector = NoConnector
    /\ lastDisable = << >>
    /\ lastForce = << >>
    /\ connecting = [tag |-> "NotCalled"]
    /\ httpCalls = << >>
    /\ env \in [peerCert : Hosts,
                raw : {[tag |-> "Ok"]} \cup [tag : {"Err"}, err : IoErrors]]
    /\ mid = [tag |-> "NoHandshake"]
    /\ hsSteps = 0
    /\ pollLog = << >>
    /\ transport = NoTransport
    /\ ioLog = << >>

SpecConnector == Init /\ [][NextConnector]_vars

(***************************************************************************)
(* The TLS backend (tls_api).  A handshake in progress is the backend's    *)
(* MidHandshakeTlsStream: it owns the raw stream and counts the times it   *)
(* was interrupted.  One backend step on it either completes, fails for    *)
(* good, or is interrupted again.  Which of the three a step returns is    *)
(* the backend's decision alone: the library passes the context and the    *)
(* domain through unchanged and places no condition on the result.         *)
(***************************************************************************)
Ok(stream) == [tag |-> "Ok", stream |-> stream]
Failure(e) == [tag |-> "Failure", err |-> e]
Interrupted(s) == [tag |-> "Interrupted", s |-> s]

\* the handshake the backend starts for connector.connect(domain, stream)
ClientHandshake(ctx, domain, stream) ==
    [raw |-> stream, side |-> "client", domain |-> domain,
     verify |-> ctx.verify_hostname, round |-> 0]

\* the handshake the backend starts for acceptor.accept(stream)
ServerHandshake(stream) ==
    [raw |-> stream, side |-> "server", domain |-> "none",
     verify |-> FALSE, round |-> 0]

\* the results one backend handshake step on s may return
HandshakeOutcomes(s) ==
    (IF s.round < MaxInterrupts
     THEN {Interrupted([s EXCEPT !.round = s.round + 1])}
     ELSE {})
    \cup {Failure(e) : e \in TlsErrors}
    \cup {Ok([raw |-> s.raw, side |-> s.side, rounds |-> s.round])}

(***************************************************************************)
(* MidHandshake and its two wrappers.                                      *)
(***************************************************************************)
None == [tag |-> "None"]
Some(v) == [tag |-> "Some", val |-> v]

\* what a poll returns: Ok(Async::Ready(item)), Ok(Async::NotReady), Err(e),
\* or a panic with its message
Ready(item) == [tag |-> "Ready", item |-> item]
NotReady == [tag |-> "NotReady"]
Err(e) == [tag |-> "Err", err |-> e]
Panic(msg) == [tag |-> "Panic", msg |-> msg]

\* TlsStream { inner: stream }
TlsStream(stream) == [inner |-> stream]

\* the backend step a poll will make when it finds inner as it is: the
\* results s.handshake() may return, or no step at all
StepChoices(inner) ==
    IF inner.tag = "Some" /\ inner.val.tag = "Interrupted"
    THEN HandshakeOutcomes(inner.val.s)
    ELSE {None}

\* a plausible slip: the held result is read without being taken, so a
\* resolved handshake keeps its result
MidHandshake_poll_no_take(inner, step) ==
    IF inner.tag = "None"
    THEN [inner |-> None, steps |-> 0,
          ret |-> Panic("cannot poll MidHandshake twice")]
    ELSE CASE inner.val.tag = "Ok" ->
                [inner |-> inner, steps |-> 0,
                 ret |-> Ready(TlsStream(inner.val.stream))]
           [] inner.val.tag = "Failure" ->
                [inner |-> inner, steps |-> 0, ret |-> Err(inner.val.err)]
           [] inner.val.tag = "Interrupted" ->
                CASE step.tag = "Ok" ->
                       [inner |-> Some(step), steps |-> 1,
                        ret |-> Ready(TlsStream(step.stream))]
                  [] step.tag = "Failure" ->
                       [inner |-> Some(step), steps |-> 1, ret |-> Err(step.err)]
                  [] step.tag = "Interrupted" ->
                       [inner |-> Some(step), steps |-> 1, ret |-> NotReady]

\* a plausible slip: the interrupted branch forgets to put the partial
\* session back
MidHandshake_poll_no_store(inner, step) ==
    IF inner.tag = "None"
    THEN [inner |-> None, steps |-> 0,
          ret |-> Panic("cannot poll MidHandshake twice")]
    ELSE CASE inner.val.tag = "Ok" ->
                [inner |-> None, steps |-> 0,
                 ret |-> Ready(TlsStream(inner.val.stream))]
           [] inner.val.tag = "Failure" ->
                [inner |-> None, steps |-> 0, ret |-> Err(inner.val.err)]
           [] inner.val.tag = "Interrupted" ->
                CASE step.tag = "Ok" ->
                       [inner |-> None, steps |-> 1,
                        ret |-> Ready(TlsStream(step.stream))]
                  [] step.tag = "Failure" ->
                       [inner |-> None, steps |-> 1, ret |-> Err(step.err)]
                  [] step.tag = "Interrupted" ->
                       [inner |-> None, steps |-> 1, ret |-> NotReady]

\* a plausible slip: a held failure is reported as a generic error, the
\* backend's own error being dropped
MidHandshake_poll_generic_err(inner, step) ==
    IF inner.tag = "None"
    THEN [inner |-> None, steps |-> 0,
          ret |-> Panic("cannot poll MidHandshake twice")]
    ELSE CASE inner.val.tag = "Ok" ->
                [inner |-> None, steps |-> 0,
                 ret |-> Ready(TlsStream(inner.val.stream))]
           [] inner.val.tag = "Failure" ->
                [inner |-> None, steps |-> 0, ret |-> Err("ProtocolMismatch")]
           [] inner.val.tag = "Interrupted" ->
                CASE step.tag = "Ok" ->
                       [inner |-> None, steps |-> 1,
                        ret |-> Ready(TlsStream(step.stream))]
                  [] step.tag = "Failure" ->
                       [inner |-> None, steps |-> 1, ret |-> Err(step.err)]
                  [] step.tag = "Interrupted" ->
                       [inner |-> Some(step), steps |-> 1, ret |-> NotReady]

\* a plausible slip: a failure is put back so that it can be read again
MidHandshake_poll_keeps_failure(inner, step) ==
    IF inner.tag = "None"
    THEN [inner |-> None, steps |-> 0,
          ret |-> Panic("cannot poll MidHandshake twice")]
    ELSE CASE inner.val.tag = "Ok" ->
                [inner |-> None, steps |-> 0,
                 ret |-> Ready(TlsStream(inner.val.stream))]
           [] inner.val.tag = "Failure" ->
                [inner |-> inner, steps |-> 0, ret |-> Err(inner.val.err)]
           [] inner.val.tag = "Interrupted" ->
                CASE step.tag = "Ok" ->
                       [inner |-> None, steps |-> 1,
                        ret |-> Ready(TlsStream(step.stream))]
                  [] step.tag = "Failure" ->
                       [inner |-> Some(step), steps |-> 1, ret |-> Err(step.err)]
                  [] step.tag = "Interrupted" ->
                       [inner |-> Some(step), steps |-> 1, ret |-> NotReady]

\* a plausible slip: the interrupted branch puts the partial session back
\* without driving it, so no poll ever makes progress
MidHandshake_poll_no_progress(inner, step) ==
    IF inner.tag = "None"
    THEN [inner |-> None, steps |-> 0,
          ret |-> Panic("cannot poll MidHandshake twice")]
    ELSE CASE inner.val.tag = "Ok" ->
                [inner |-> None, steps |-> 0,
                 ret |-> Ready(TlsStream(inner.val.stream))]
           [] inner.val.tag = "Failure" ->
                [inner |-> None, steps |-> 0, ret |-> Err(inner.val.err)]
           [] inner.val.tag = "Interrupted" ->
                [inner |-> inner, steps |-> 0, ret |-> NotReady]

\* MidHandshake::poll on a future holding inner, where step is what the
\* backend returns if the poll calls s.handshake().  Yields the new inner,
\* the number of backend steps made and the value returned.
MidHandshake_poll(inner, step) ==
    IF inner.tag = "None"
    THEN [inner |-> None, steps |-> 0,
          ret |-> Panic("cannot poll MidHandshake twice")]
    ELSE CASE inner.val.tag = "Ok" ->
                [inner |-> None, steps |-> 0,
                 ret |-> Ready(TlsStream(inner.val.stream))]
           [] inner.val.tag = "Failure" ->
                [inner |-> None, steps |-> 0, ret |-> Err(inner.val.err)]
           [] inner.val.tag = "Interrupted" ->
                CASE step.tag = "Ok" ->
                       [inner |-> None, steps |-> 1,
                        ret |-> Ready(TlsStream(step.stream))]
                  [] step.tag = "Failure" ->
                       [inner |-> None, steps |-> 1, ret |-> Err(step.err)]
                  [] step.tag = "Interrupted" ->
                       [inner |-> Some(step), steps |-> 1, ret |-> NotReady]

\* connect_async: ConnectAsync { inner: MidHandshake { inner: Some(first) } },
\* first being the result of connector.connect(domain, stream)
connect_async(first) == [tag |-> "ConnectAsync", inner |-> Some(first)]

\* accept_async: AcceptAsync { inner: MidHandshake { inner: Some(first) } },
\* first being the result of acceptor.accept(stream)
accept_async(first) == [tag |-> "AcceptAsync", inner |-> Some(first)]

\* The caller has one raw stream, and the functions that take it take it
\* by value (stream: S, Http(T)): it goes into a handshake or into a plain
\* transport, once.
StreamFree == mid.tag = "NoHandshake" /\ transport = NoTransport

\* what was held when a poll began
Held(inner) == IF inner.tag = "None" THEN "None" ELSE inner.val.tag

\* a plausible slip: the handshake is not begun at construction but left to
\* the first poll
StartConnectAsync_lazy ==
    /\ StreamFree
    /\ \E ctx \in TlsContexts, domain \in Hosts, stream \in RawStreams :
          mid' = connect_async(Interrupted(ClientHandshake(ctx, domain, stream)))
    /\ UNCHANGED <<hsSteps, pollLog, env>>
    /\ UNCHANGED <<connVars, ioVars>>

\* connect_async(connector, domain, stream) for some context, domain and stream
StartConnectAsync ==
    /\ StreamFree
    /\ \E ctx \in TlsContexts, domain \in Hosts, stream \in RawStreams :
          \E first \in HandshakeOutcomes(ClientHandshake(ctx, domain, stream)) :
             mid' = connect_async(first)
    /\ hsSteps' = hsSteps + 1
    /\ UNCHANGED <<pollLog, env>>
    /\ UNCHANGED <<connVars, ioVars>>

StartAcceptAsync ==
    /\ StreamFree
    /\ \E stream \in RawStreams :
          \E first \in HandshakeOutcomes(ServerHandshake(stream)) :
             mid' = accept_async(first)
    /\ hsSteps' = hsSteps + 1
    /\ UNCHANGED <<pollLog, env>>
    /\ UNCHANGED <<connVars, ioVars>>

\* one poll of the MidHandshake the wrapper holds, recorded in pollLog
PollInner ==
    /\ Len(pollLog) < MaxPolls
    /\ \E step \in StepChoices(mid.inner) :
          LET r == MidHandshake_poll(mid.inner, step) IN
          /\ mid' = [mid EXCEPT !.inner = r.inner]
          /\ hsSteps' = hsSteps + r.steps
          /\ pollLog' = Append(pollLog, [found |-> Held(mid.inner),
                                         held |-> mid.inner,
                                         steps |-> r.steps, ret |-> r.ret])
    /\ UNCHANGED env
    /\ UNCHANGED <<connVars, ioVars>>

\* ConnectAsync::poll: self.inner.poll()
ConnectAsync_poll ==
    /\ mid.tag = "ConnectAsync"
    /\ PollInner

\* AcceptAsync::poll: self.inner.poll()
AcceptAsync_poll ==
    /\ mid.tag = "AcceptAsync"
    /\ PollInner

(***************************************************************************)
(* The handshake future alone, driven by an executor that polls it again   *)
(* as long as it is pending.                                               *)
(***************************************************************************)
NextHandshake ==
    \/ StartConnectAsync
    \/ StartAcceptAsync
    \/ ConnectAsync_poll
    \/ AcceptAsync_poll

\* a poll of a handshake whose slot still holds an outcome
PendingPoll ==
    /\ mid.tag \in {"ConnectAsync", "AcceptAsync"}
    /\ mid.inner.tag = "Some"
    /\ (ConnectAsync_poll \/ AcceptAsync_poll)

\* the stream side makes no use of the raw connector: its outcome is fixed
InitStream == Init /\ env.raw.tag = "Ok"

SpecHandshakeFair ==
    InitStream /\ [][NextHandshake]_vars /\ WF_vars(PendingPoll)

(***************************************************************************)
(* MaybeHttpsStream and TlsStream: shutdown.  Each poll of shutdown is     *)
(* given the result the encryption layer would return (io::Result<()>) and *)
(* the result the raw transport would return (Poll<(), io::Error>), and    *)
(* yields the calls it made, in order, and the value it returned.          *)
(***************************************************************************)
TlsShutdownResults == {[tag |-> "Ok"]} \cup [tag : {"Err"}, err : IoErrors]
RawShutdownResults ==
    {[tag |-> "Ready"], [tag |-> "NotReady"]} \cup [tag : {"Err"}, err : IoErrors]

TlsCall_shutdown(res) == [op |-> "tls_shutdown", res |-> res]
RawCall_shutdown(res) == [op |-> "raw_shutdown", res |-> res]

\* a plausible slip: the two layers are shut down in the wrong order
TlsStream_shutdown_raw_first(tlsRes, rawRes) ==
    IF rawRes.tag # "Ready"
    THEN [calls |-> <<RawCall_shutdown(rawRes)>>, ret |-> rawRes]
    ELSE [calls |-> <<RawCall_shutdown(rawRes), TlsCall_shutdown(tlsRes)>>,
          ret |-> IF tlsRes.tag = "Ok" THEN [tag |-> "Ready"]
                  ELSE IF tlsRes.err = "WouldBlock" THEN NotReady
                  ELSE Err(tlsRes.err)]

\* a plausible slip: the encryption layer's result is dropped instead of
\* being passed through try_nb!
TlsStream_shutdown_ignore_tls(tlsRes, rawRes) ==
    [calls |-> <<TlsCall_shutdown(tlsRes), RawCall_shutdown(rawRes)>>,
     ret |-> rawRes]

\* a plausible slip: the encryption layer's error is passed on with ? instead
\* of try_nb!, so would-block is returned as an error
TlsStream_shutdown_no_try_nb(tlsRes, rawRes) ==
    IF tlsRes.tag = "Ok"
    THEN [calls |-> <<TlsCall_shutdown(tlsRes), RawCall_shutdown(rawRes)>>,
          ret |-> rawRes]
    ELSE [calls |-> <<TlsCall_shutdown(tlsRes)>>, ret |-> Err(tlsRes.err)]

\* a plausible slip: shutdown remembers that the encryption layer was closed
\* and later polls go straight to the raw transport
TlsStream_shutdown_resume(tlsRes, rawRes) ==
    IF \E i \in DOMAIN ioLog : \E k \in DOMAIN ioLog[i].calls :
          ioLog[i].calls[k] = TlsCall_shutdown([tag |-> "Ok"])
    THEN [calls |-> <<RawCall_shutdown(rawRes)>>, ret |-> rawRes]
    ELSE IF tlsRes.tag = "Ok"
    THEN [calls |-> <<TlsCall_shutdown(tlsRes), RawCall_shutdown(rawRes)>>,
          ret |-> rawRes]
    ELSE IF tlsRes.err = "WouldBlock"
    THEN [calls |-> <<TlsCall_shutdown(tlsRes)>>, ret |-> NotReady]
    ELSE [calls |-> <<TlsCall_shutdown(tlsRes)>>, ret |-> Err(tlsRes.err)]

\* TlsStream::shutdown: try_nb!(self.inner.shutdown()), then
\* self.inner.get_mut().shutdown()
TlsStream_shutdown(tlsRes, rawRes) ==
    IF tlsRes.tag = "Ok"
    THEN [calls |-> <<TlsCall_shutdown(tlsRes), RawCall_shutdown(rawRes)>>,
          ret |-> rawRes]
    ELSE IF tlsRes.err = "WouldBlock"
    THEN [calls |-> <<TlsCall_shutdown(tlsRes)>>, ret |-> NotReady]
    ELSE [calls |-> <<TlsCall_shutdown(tlsRes)>>, ret |-> Err(tlsRes.err)]

\* a plausible slip: both arms of the match run the two-phase shutdown, so a
\* Plain transport is asked to close an encryption layer it does not have
MaybeHttpsStream_shutdown_two_phase(self, tlsRes, rawRes) ==
    TlsStream_shutdown(tlsRes, rawRes)

\* MaybeHttpsStream::shutdown
MaybeHttpsStream_shutdown(self, tlsRes, rawRes) ==
    IF self.tag = "Http"
    THEN [calls |-> <<RawCall_shutdown(rawRes)>>, ret |-> rawRes]
    ELSE TlsStream_shutdown(tlsRes, rawRes)

(***************************************************************************)
(* MaybeHttpsStream and TlsStream: read, write and flush.  res is the      *)
(* io::Result the layer that is reached returns.                           *)
(***************************************************************************)
\* io::Result<usize> of a read or a write
ByteResults == {[tag |-> "Ok", n |-> 1]} \cup [tag : {"Err"}, err : IoErrors]
\* io::Result<()> of a flush
FlushResults == {[tag |-> "Ok"]} \cup [tag : {"Err"}, err : IoErrors]

LayerCall(op, res) == [op |-> op, res |-> res]

\* TlsStream::read: self.inner.read(buf)
TlsStream_read(res) == [calls |-> <<LayerCall("tls_read", res)>>, ret |-> res]

\* TlsStream::write: self.inner.write(buf)
TlsStream_write(res) == [calls |-> <<LayerCall("tls_write", res)>>, ret |-> res]

\* TlsStream::flush: self.inner.flush()
TlsStream_flush(res) == [calls |-> <<LayerCall("tls_flush", res)>>, ret |-> res]

\* MaybeHttpsStream::read
MaybeHttpsStream_read(self, res) ==
    IF self.tag = "Http"
    THEN [calls |-> <<LayerCall("raw_read", res)>>, ret |-> res]
    ELSE TlsStream_read(res)

\* MaybeHttpsStream::write
MaybeHttpsStream_write(self, res) ==
    IF self.tag = "Http"
    THEN [calls |-> <<LayerCall("raw_write", res)>>, ret |-> res]
    ELSE TlsStream_write(res)

\* MaybeHttpsStream::flush
MaybeHttpsStream_flush(self, res) ==
    IF self.tag = "Http"
    THEN [calls |-> <<LayerCall("raw_flush", res)>>, ret |-> res]
    ELSE TlsStream_flush(res)

\* MaybeHttpsStream::Http(stream)
WrapHttp ==
    /\ StreamFree
    /\ \E stream \in RawStreams : transport' = [tag |-> "Http", s |-> stream]
    /\ UNCHANGED <<ioLog, env>>
    /\ UNCHANGED <<connVars, hsVars>>

\* MaybeHttpsStream::Https(stream), stream being the item a poll of the
\* handshake returned
WrapHttps ==
    /\ transport = NoTransport
    /\ \E i \in DOMAIN pollLog :
          /\ pollLog[i].ret.tag = "Ready"
          /\ transport' = [tag |-> "Https", s |-> pollLog[i].ret.item]
    /\ UNCHANGED <<ioLog, env>>
    /\ UNCHANGED <<connVars, hsVars>>

\* MaybeHttpsStream::shutdown with the results the two layers return
Shutdown ==
    /\ transport # NoTransport
    /\ Len(ioLog) < MaxIoCalls
    /\ \E tlsRes \in TlsShutdownResults, rawRes \in RawShutdownResults :
          LET r == MaybeHttpsStream_shutdown(transport, tlsRes, rawRes) IN
          ioLog' = Append(ioLog, [op |-> "shutdown", calls |-> r.calls, ret |-> r.ret])
    /\ UNCHANGED <<transport, env>>
    /\ UNCHANGED <<connVars, hsVars>>

\* MaybeHttpsStream::read with the result the layer it reaches returns
Read ==
    /\ transport # NoTransport
    /\ Len(ioLog) < MaxIoCalls
    /\ \E res \in ByteResults :
          LET r == MaybeHttpsStream_read(transport, res) IN
          ioLog' = Append(ioLog, [op |-> "read", calls |-> r.calls, ret |-> r.ret])
    /\ UNCHANGED <<transport, env>>
    /\ UNCHANGED <<connVars, hsVars>>

\* MaybeHttpsStream::write with the result the layer it reaches returns
Write ==
    /\ transport # NoTransport
    /\ Len(ioLog) < MaxIoCalls
    /\ \E res \in ByteResults :
          LET r == MaybeHttpsStream_write(transport, res) IN
          ioLog' = Append(ioLog, [op |-> "write", calls |-> r.calls, ret |-> r.ret])
    /\ UNCHANGED <<transport, env>>
    /\ UNCHANGED <<connVars, hsVars>>

\* MaybeHttpsStream::flush with the result the layer it reaches returns
Flush ==
    /\ transport # NoTransport
    /\ Len(ioLog) < MaxIoCalls
    /\ \E res \in FlushResults :
          LET r == MaybeHttpsStream_flush(transport, res) IN
          ioLog' = Append(ioLog, [op |-> "flush", calls |-> r.calls, ret |-> r.ret])
    /\ UNCHANGED <<transport, env>>
    /\ UNCHANGED <<connVars, hsVars>>

NextStream ==
    \/ StartConnectAsync
    \/ StartAcceptAsync
    \/ ConnectAsync_poll
    \/ AcceptAsync_poll
    \/ WrapHttp
    \/ WrapHttps
    \/ Shutdown
    \/ Read
    \/ Write
    \/ Flush

SpecStream == InitStream /\ [][NextStream]_vars

(***************************************************************************)
(* HttpsConnecting: a box around the future of a connect.  Its poll hands  *)
(* the poll to the boxed future and returns what that returns, a panic of  *)
(* the boxed future included; it keeps no state of its own and has no      *)
(* guard against a poll after resolution.  The field is private and the    *)
(* only function returning the type is connect, which panics before it     *)
(* builds one: no action constructs or polls an HttpsConnecting.           *)
(***************************************************************************)
\* HttpsConnecting::poll: self.0.poll()
HttpsConnecting_poll(innerRet) == innerRet

(***************************************************************************)
(* Properties of the connector.                                            *)
(***************************************************************************)
Called == connecting.tag = "Called"
PlaintextCall == Called /\ connecting.dst.scheme = "http"
TlsCall == Called /\ connecting.dst.scheme = "https"
\* the calls for which the design issues the raw connect
RawConnectDue == Called /\ ~(connecting.dst.scheme = "http" /\ connecting.self.force_https)
ResolvedOk(variant) ==
    /\ connecting.ret.tag = "Ok"
    /\ connecting.ret.variant = variant
ResolvedErr(err) ==
    /\ connecting.ret.tag = "Err"
    /\ connecting.ret.err = err

\* C1: a connect to a plaintext destination with force_https set fails with
\* the protocol policy error and makes no call to the raw connector.
C1_ForceHttpsRejectsPlaintext ==
    (PlaintextCall /\ connecting.self.force_https) =>
        /\ ResolvedErr("ProtocolPolicyError")
        /\ connecting.http = << >>

\* C2: a connect to a TLS destination makes exactly one raw connect, and when
\* it resolves successfully it resolves with the TLS variant.
C2_TlsConnectOneRawConnect ==
    TlsCall =>
        /\ Len(connecting.http) = 1
        /\ connecting.ret.tag # "Panic"
        /\ (connecting.ret.tag = "Ok" => connecting.ret.variant = "Https")

\* C3: a connect to a plaintext destination without force_https succeeds iff
\* the raw connect succeeds, with the Plain variant and no handshake step.
C3_PlaintextConnectFollowsRaw ==
    (PlaintextCall /\ ~connecting.self.force_https) =>
        /\ (connecting.ret.tag = "Ok") <=> (env.raw.tag = "Ok")
        /\ (env.raw.tag = "Ok" => ResolvedOk("Http"))
        /\ hsSteps = 0

\* C7: on a certificate whose name differs from the destination host, the
\* connect succeeds when hostname_verification is off and fails with the
\* handshake failure when it is on.
C7_HostnameFlagDecidesMismatch ==
    (TlsCall /\ env.raw.tag = "Ok" /\ env.peerCert # connecting.dst.host) =>
        IF connecting.self.hostname_verification
        THEN ResolvedErr("HandshakeFailure")
        ELSE ResolvedOk("Https")

\* C8: when the raw connect fails, connect resolves with the raw connector's
\* error and performs no handshake step, for either scheme.
C8_RawConnectErrorVerbatim ==
    (RawConnectDue /\ env.raw.tag = "Err") =>
        /\ ResolvedErr(env.raw.err)
        /\ hsSteps = 0

\* C9: a connector built from parts, before any setter is called, has
\* hostname_verification = TRUE and force_https = FALSE, whatever the parts.
C9_FromPartsDefaults ==
    (connector # NoConnector /\ lastDisable = << >> /\ lastForce = << >>) =>
        /\ connector.hostname_verification = TRUE
        /\ connector.force_https = FALSE

\* a connector fresh from From, built from the second raw connector and a
\* TLS context that does not verify hostnames
C9_Witness ==
    /\ connector # NoConnector
    /\ lastDisable = << >>
    /\ lastForce = << >>
    /\ connector.http = "http2"
    /\ connector.tls = [verify_hostname |-> FALSE]

(***************************************************************************)
(* Properties of the handshake future.                                     *)
(***************************************************************************)
Resolving(ret) == ret.tag \in {"Ready", "Err"}

\* C4: once a poll of the handshake has returned a ready session or an
\* error, every later poll panics: it returns no value, no session and no
\* not-ready signal.
C4_PollAfterResolutionPanics ==
    \A i, j \in DOMAIN pollLog :
        (i < j /\ Resolving(pollLog[i].ret)) => pollLog[j].ret.tag = "Panic"

\* a handshake that was interrupted, then completed, then polled once more
C4_Witness ==
    \E i \in DOMAIN pollLog :
        /\ i + 2 \in DOMAIN pollLog
        /\ pollLog[i].ret.tag = "NotReady"
        /\ pollLog[i + 1].ret.tag = "Ready"
        /\ pollLog[i + 2].ret.tag = "Panic"

\* C10: a poll that finds the held outcome interrupted makes exactly one
\* backend step; when that step is interrupted again the poll returns
\* not-ready and the future holds the partial session that step returned,
\* so the handshake is still pending.
C10_InterruptedPollOneStep ==
    /\ \A i \in DOMAIN pollLog :
          /\ pollLog[i].found = "Interrupted" => pollLog[i].steps = 1
          /\ pollLog[i].ret.tag = "NotReady" =>
                (pollLog[i].found = "Interrupted" /\ pollLog[i].steps = 1)
    /\ (pollLog # << >> /\ pollLog[Len(pollLog)].ret.tag = "NotReady") =>
          /\ mid.inner.tag = "Some"
          /\ mid.inner.val.tag = "Interrupted"
          /\ mid.inner.val.s.round = hsSteps

\* two polls in a row found the handshake interrupted and left it pending
C10_Witness ==
    /\ Len(pollLog) = 2
    /\ pollLog[1].ret.tag = "NotReady"
    /\ pollLog[2].ret.tag = "NotReady"
    /\ pollLog[2].found = "Interrupted"
    /\ hsSteps = 3

\* C11: a poll that finds a success held returns that very session, and a
\* poll that finds a fatal failure held returns that very error; neither
\* makes a backend handshake step.
C11_HeldOutcomeReturnedAsIs ==
    \A i \in DOMAIN pollLog :
        /\ pollLog[i].found = "Ok" =>
              /\ pollLog[i].ret = Ready(TlsStream(pollLog[i].held.val.stream))
              /\ pollLog[i].steps = 0
        /\ pollLog[i].found = "Failure" =>
              /\ pollLog[i].ret = Err(pollLog[i].held.val.err)
              /\ pollLog[i].steps = 0

\* a first poll that found a certificate failure held and returned it
C11_Witness ==
    /\ pollLog # << >>
    /\ pollLog[1].found = "Failure"
    /\ pollLog[1].ret = Err("BadCertificate")
    /\ hsSteps = 1

\* the polls so far that found the held outcome interrupted
InterruptedPolls == {i \in DOMAIN pollLog : pollLog[i].found = "Interrupted"}

\* C12: the first backend step is made when the handshake is constructed,
\* before any poll: the number of backend steps is zero before construction
\* and afterwards one plus the number of polls that found the held outcome
\* interrupted.
C12_EagerFirstStep ==
    IF mid.tag = "NoHandshake"
    THEN hsSteps = 0 /\ pollLog = << >>
    ELSE hsSteps = 1 + Cardinality(InterruptedPolls)

\* a client handshake that was constructed and not yet polled
C12_Witness ==
    /\ mid.tag = "ConnectAsync"
    /\ pollLog = << >>
    /\ hsSteps = 1

(***************************************************************************)
(* Properties of shutdown.                                                 *)
(***************************************************************************)
RECURSIVE AllCalls(_)
\* the calls of all the shutdown polls so far, in order
AllCalls(log) ==
    IF log = << >> THEN << >> ELSE log[1].calls \o AllCalls(Tail(log))

IsTls == transport.tag = "Https"

\* the encryption-layer call a poll made failed with an error that is not
\* would-block
TlsFailedIn(entry) ==
    \E k \in DOMAIN entry.calls :
        /\ entry.calls[k].op = "tls_shutdown"
        /\ entry.calls[k].res.tag = "Err"
        /\ entry.calls[k].res.err # "WouldBlock"

\* C5: on a TLS transport every call of the raw transport's shutdown comes
\* after a call of the encryption-layer shutdown that returned success.
C5_TlsShutdownBeforeRaw ==
    IsTls =>
        LET calls == AllCalls(ioLog) IN
        \A i \in DOMAIN calls :
            calls[i].op = "raw_shutdown" =>
                \E j \in 1..(i - 1) :
                    /\ calls[j].op = "tls_shutdown"
                    /\ calls[j].res.tag = "Ok"

\* a TLS transport whose first shutdown poll would block in the encryption
\* layer and whose second poll reached the raw transport
C5_Witness ==
    /\ IsTls
    /\ Len(ioLog) = 2
    /\ Len(ioLog[1].calls) = 1
    /\ ioLog[1].ret.tag = "NotReady"
    /\ Len(ioLog[2].calls) = 2
    /\ ioLog[2].calls[2].op = "raw_shutdown"

\* C6: on a TLS transport, a shutdown poll whose encryption-layer shutdown
\* fails with an error other than would-block returns that error and makes
\* no call of the raw transport's shutdown.
C6_TlsShutdownErrorAborts ==
    IsTls =>
        \A i \in DOMAIN ioLog :
            TlsFailedIn(ioLog[i]) =>
                /\ ioLog[i].ret.tag = "Err"
                /\ \A k \in DOMAIN ioLog[i].calls :
                      IF ioLog[i].calls[k].op = "tls_shutdown"
                      THEN ioLog[i].ret.err = ioLog[i].calls[k].res.err
                      ELSE FALSE

\* a TLS transport whose shutdown poll failed in the encryption layer with
\* a broken pipe
C6_Witness ==
    /\ IsTls
    /\ \E i \in DOMAIN ioLog :
          /\ TlsFailedIn(ioLog[i])
          /\ ioLog[i].ret = Err("BrokenPipe")

\* the shutdown polls among the calls made on the transport
ShutdownPolls == {i \in DOMAIN ioLog : ioLog[i].op = "shutdown"}

\* the calls of a given layer operation that one entry of the log made
CallsOf(entry, op) == {k \in DOMAIN entry.calls : entry.calls[k].op = op}

\* C13: on a TLS transport, a shutdown poll whose encryption-layer shutdown
\* reports would-block returns not-ready, not an error, and makes no call of
\* the raw transport's shutdown.
C13_WouldBlockIsNotReady ==
    IsTls =>
        \A i \in ShutdownPolls :
            (\E k \in CallsOf(ioLog[i], "tls_shutdown") :
                ioLog[i].calls[k].res = [tag |-> "Err", err |-> "WouldBlock"]) =>
                /\ ioLog[i].ret = NotReady
                /\ CallsOf(ioLog[i], "raw_shutdown") = {}

\* a TLS transport whose encryption-layer shutdown would block in two polls
\* in a row
C13_Witness ==
    /\ IsTls
    /\ Len(ioLog) = 2
    /\ \A i \in 1..2 :
          /\ ioLog[i].op = "shutdown"
          /\ ioLog[i].calls = <<TlsCall_shutdown([tag |-> "Err", err |-> "WouldBlock"])>>
          /\ ioLog[i].ret = NotReady

\* the raw-transport and the encryption-layer operation a call is forwarded to
RawOp(op) ==
    CASE op = "read" -> "raw_read"
      [] op = "write" -> "raw_write"
      [] op = "flush" -> "raw_flush"
      [] op = "shutdown" -> "raw_shutdown"
TlsOp(op) ==
    CASE op = "read" -> "tls_read"
      [] op = "write" -> "tls_write"
      [] op = "flush" -> "tls_flush"
      [] op = "shutdown" -> "tls_shutdown"

\* C15: every read, write, flush and shutdown on the transport goes to the
\* variant held.  On the Plain variant it is exactly one call of the same
\* operation on the raw transport, whose result is returned unchanged, and
\* no call on a TLS session; on the TLS variant a read, write or flush is
\* exactly one call of the same operation on the TLS session, whose result
\* is returned unchanged, and a shutdown begins at the TLS session.
C15_ForwardsToHeldVariant ==
    \A i \in DOMAIN ioLog :
        LET e == ioLog[i] IN
        IF transport.tag = "Http"
        THEN /\ Len(e.calls) = 1
             /\ e.calls[1].op = RawOp(e.op)
             /\ e.ret = e.calls[1].res
        ELSE IF e.op = "shutdown"
        THEN /\ e.calls # << >>
             /\ e.calls[1].op = "tls_shutdown"
        ELSE /\ Len(e.calls) = 1
             /\ e.calls[1].op = TlsOp(e.op)
             /\ e.ret = e.calls[1].res

\* a Plain transport that was written to and then shut down, the raw
\* shutdown not being ready
C15_Witness ==
    /\ transport.tag = "Http"
    /\ Len(ioLog) = 2
    /\ ioLog[1].op = "write"
    /\ ioLog[1].ret = [tag |-> "Ok", n |-> 1]
    /\ ioLog[2].op = "shutdown"
    /\ ioLog[2].calls = <<RawCall_shutdown(NotReady)>>
    /\ ioLog[2].ret = NotReady

\* C18: on a TLS transport every shutdown poll begins with a call of the
\* encryption-layer shutdown, also when an earlier poll's encryption-layer
\* shutdown already succeeded; each poll makes exactly one such call and at
\* most one call of the raw shutdown.
C18_EveryPollRestartsAtTls ==
    IsTls =>
        \A i \in ShutdownPolls :
            /\ ioLog[i].calls # << >>
            /\ ioLog[i].calls[1].op = "tls_shutdown"
            /\ Cardinality(CallsOf(ioLog[i], "tls_shutdown")) = 1
            /\ Cardinality(CallsOf(ioLog[i], "raw_shutdown")) <= 1

\* a TLS transport whose first shutdown poll closed the encryption layer and
\* found the raw shutdown not ready, and whose second poll closed the
\* encryption layer again and then the raw transport
C18_Witness ==
    /\ IsTls
    /\ Len(ioLog) = 2
    /\ ioLog[1].op = "shutdown"
    /\ ioLog[1].calls = <<TlsCall_shutdown([tag |-> "Ok"]), RawCall_shutdown(NotReady)>>
    /\ ioLog[2].op = "shutdown"
    /\ ioLog[2].calls = <<TlsCall_shutdown([tag |-> "Ok"]),
                          RawCall_shutdown([tag |-> "Ready"])>>

\* some poll so far returned a ready session or an error
Resolved == \E i \in DOMAIN pollLog : Resolving(pollLog[i].ret)

\* C17: between polls the slot of a handshake is empty exactly when some
\* earlier poll returned a ready session or an error, and after a poll that
\* returned not-ready it holds an interrupted partial session.
C17_SlotEmptyIffResolved ==
    mid.tag # "NoHandshake" =>
        /\ (mid.inner = None) <=> Resolved
        /\ (pollLog # << >> /\ pollLog[Len(pollLog)].ret = NotReady) =>
              /\ mid.inner.tag = "Some"
              /\ mid.inner.val.tag = "Interrupted"

\* a handshake that stayed pending through one poll and failed in the next,
\* leaving the slot empty
C17_Witness ==
    /\ Len(pollLog) = 2
    /\ pollLog[1].ret = NotReady
    /\ pollLog[2].ret.tag = "Err"
    /\ mid.inner = None

\* the flags the setter calls so far should have left
FlagsFollowLastCalls ==
    connector # NoConnector =>
        /\ connector.hostname_verification =
              (IF lastDisable = << >> THEN TRUE ELSE ~lastDisable[1])
        /\ connector.force_https =
              (IF lastForce = << >> THEN FALSE ELSE lastForce[1])

\* a setter call changes nothing but its own flag
SettersKeepTheRest ==
    /\ SetHostnameVerification =>
          /\ connector'.force_https = connector.force_https
          /\ connector'.http = connector.http
          /\ connector'.tls = connector.tls
    /\ SetForceHttps =>
          /\ connector'.hostname_verification = connector.hostname_verification
          /\ connector'.http = connector.http
          /\ connector'.tls = connector.tls

\* C19: after any sequence of setter calls hostname_verification is the
\* negation of the last danger_disable_hostname_verification argument (TRUE
\* if none) and force_https is the last force_https argument (FALSE if
\* none); each setter leaves the other flag, the raw connector and the TLS
\* context as they were.
C19_SettersLastCallWins ==
    /\ []FlagsFollowLastCalls
    /\ [][SettersKeepTheRest]_vars

\* a connector whose verification was disabled and whose force_https was
\* enabled and then disabled again
C19_Witness ==
    /\ connector # NoConnector
    /\ lastDisable = <<TRUE>>
    /\ lastForce = <<FALSE>>
    /\ connector.hostname_verification = FALSE
    /\ connector.force_https = FALSE
    /\ connector.http = "http2"

\* the polls so far that returned a ready session or an error
ResolvingPolls == {i \in DOMAIN pollLog : Resolving(pollLog[i].ret)}

\* C16: the backend interrupting a handshake only finitely often and the
\* executor polling it as long as it is pending, a handshake that was
\* constructed eventually resolves, with a session or with an error, and at
\* most one poll ever resolves it.
C16_HandshakeResolvesOnce ==
    /\ (mid.tag # "NoHandshake") ~> (Cardinality(ResolvingPolls) = 1)
    /\ [](Cardinality(ResolvingPolls) <= 1)

\* a handshake that two polls found interrupted and the third completed
C16_Witness ==
    /\ Len(pollLog) = 3
    /\ pollLog[1].ret = NotReady
    /\ pollLog[2].ret = NotReady
    /\ pollLog[3].ret.tag = "Ready"
    /\ pollLog[3].found = "Interrupted"
====
